---- MODULE Spec2Model ----
(***************************************************************************)
(* Model of the DEX tracker core:                                          *)
(*   - PostgresSchema.get_partition_queries (src/database/schema.py) and   *)
(*     the execution of the DO-blocks it emits by concurrent sessions;     *)
(*   - UniswapV3Processor (src/processors/uniswap_v3_processor.py):        *)
(*     process_response, the five _process_* extractors and                *)
(*     process_bulk_responses.                                             *)
(* Four specifications share the variables: Spec (process_response on one  *)
(* payload), SpecBulk (process_bulk_responses on a batch), SpecPart (the   *)
(* partition scheduler) and SpecDB (sessions executing its statements).    *)
(***************************************************************************)
EXTENDS Integers, Sequences, FiniteSets, TLC

VARIABLES
    \* ---- get_partition_queries
    pq_pc,        \* "args" before the call, "done" after it returned
    start_date,   \* argument start_date (a naive datetime: year, month, day)
    end_date,     \* argument end_date
    utc_offset,   \* the host's local-time offset in seconds (naive datetime.timestamp())
    queries,      \* the returned list; each query as the values interpolated in it
    \* ---- sessions executing the emitted DO-blocks
    pg_class,     \* the relations of the store: relname -> [parent, range_start, range_end]
    db_pc,        \* per session: "idle", "check" (at IF NOT EXISTS), "create" (at CREATE TABLE)
    db_stmt,      \* per session: index of the statement being executed
    db_runs,      \* per session: statements started so far
    db_err,       \* per session: the error the session observed last ("none" if none)
    db_last,      \* per session: outcome of its last finished statement
    db_created,   \* relname -> number of CREATE TABLE that succeeded for it
    \* ---- process_response
    pr_pc,        \* "args" before the call, "returned" or "raised" after it
    pr_tx,        \* argument transaction_data
    pr_out,       \* the outcome: [ok, val, exc, log]
    \* ---- process_bulk_responses
    bulk_pc,      \* "loop", "returned", "raised"
    bulk_batch,   \* response_data['data']['transactions']
    bulk_i,       \* transactions consumed by the for loop
    results,      \* the local accumulator results[0..4] (1-based here)
    bulk_ret,     \* what the caller received: <<>> (nothing) or <<results>>
    bulk_exc,     \* the exception the caller received, NoExc if none
    bulk_log      \* the error log entries written by the call

partVars == <<pq_pc, start_date, end_date, utc_offset, queries>>
dbVars   == <<pg_class, db_pc, db_stmt, db_runs, db_err, db_last, db_created>>
respVars == <<pr_pc, pr_tx, pr_out>>
bulkVars == <<bulk_pc, bulk_batch, bulk_i, results, bulk_ret, bulk_exc, bulk_log>>
vars     == <<partVars, dbVars, respVars, bulkVars>>

\* ------------------------------------------------------------------ bounds
BaseYear == 2023      \* first calendar year of the windows tried
YearSpan == 2         \* number of calendar years the windows range over
MaxRuns == 2          \* statements one session starts
MaxEvents == 2        \* longest event sub-list of a payload
MaxTx == 3            \* longest batch

\* ------------------------------------------------- calendar (datetime)
Years == BaseYear .. (BaseYear + YearSpan - 1)
Days == {1, 15}
Dates == [year : Years, month : 1..12, day : Days]
Offsets == {0, -18000}

Date(y, m, d) == [year |-> y, month |-> m, day |-> d]

\* datetime.__lt__ on naive datetimes at midnight
DateLT(a, b) ==
    \/ a.year < b.year
    \/ a.year = b.year /\ a.month < b.month
    \/ a.year = b.year /\ a.month = b.month /\ a.day < b.day

DateLE(a, b) == a = b \/ DateLT(a, b)

IsLeap(y) == (y % 4 = 0 /\ y % 100 # 0) \/ y % 400 = 0

DaysInMonth(y, m) ==
    IF m = 2 THEN (IF IsLeap(y) THEN 29 ELSE 28)
    ELSE IF m \in {4, 6, 9, 11} THEN 30 ELSE 31

LeapsBefore(y) == ((y - 1) \div 4) - ((y - 1) \div 100) + ((y - 1) \div 400)

RECURSIVE DaysBeforeMonth(_, _)
DaysBeforeMonth(y, m) ==
    IF m = 1 THEN 0 ELSE DaysBeforeMonth(y, m - 1) + DaysInMonth(y, m - 1)

\* days from 1970-01-01 to the date
DaysFromEpoch(d) ==
    365 * (d.year - 1970) + (LeapsBefore(d.year) - LeapsBefore(1970))
        + DaysBeforeMonth(d.year, d.month) + (d.day - 1)

\* int(naive_datetime.timestamp()): the date is read as local time
Timestamp(d, off) == DaysFromEpoch(d) * 86400 - off

Pad2(n) == IF n < 10 THEN "0" \o ToString(n) ELSE ToString(n)

\* a faulty variant of PartitionSuffix: the suffix taken from next_date, the month
\* the partition ends in
PartitionSuffixOfNext(d) ==
    IF d.month = 12 THEN ToString(d.year + 1) \o "_" \o Pad2(1)
    ELSE ToString(d.year) \o "_" \o Pad2(d.month + 1)

\* strftime('%Y_%m')
PartitionSuffix(d) == ToString(d.year) \o "_" \o Pad2(d.month)

\* ------------------------------------------- get_partition_queries
Tables == <<"swaps", "mints", "burns">>

\* a faulty variant of RoundDown: the month dropped along with the day
RoundDownToYear(d) == Date(d.year, 1, 1)

\* start_date = datetime(start_date.year, start_date.month, 1)
RoundDown(d) == Date(d.year, d.month, 1)

\* the first of the following month (used for end_date and for next_date)
NextMonthStart(d) ==
    IF d.month = 12 THEN Date(d.year + 1, 1, 1) ELSE Date(d.year, d.month + 1, 1)

\* a faulty variant of LoopContinues: the loop bound taken inclusive
LoopContinuesInclusive(cur, end) == DateLE(cur, end)

\* while current_date < end_date
LoopContinues(cur, end) == DateLT(cur, end)

\* one emitted DO-block, as the values interpolated in its text
Query(table, cur, nxt, off) ==
    [ table       |-> table,
      name        |-> table \o "_p" \o PartitionSuffix(cur),
      range_start |-> Timestamp(cur, off),
      range_end   |-> Timestamp(nxt, off) ]

\* for table in ['swaps', 'mints', 'burns']: queries.append(query)
MonthQueries(cur, off) ==
    [i \in 1..Len(Tables) |-> Query(Tables[i], cur, NextMonthStart(cur), off)]

RECURSIVE PartitionLoop(_, _, _, _)
PartitionLoop(cur, end, off, acc) ==
    IF LoopContinues(cur, end)
    THEN PartitionLoop(NextMonthStart(cur), end, off, acc \o MonthQueries(cur, off))
    ELSE acc

get_partition_queries(s, e, off) ==
    PartitionLoop(RoundDown(s), NextMonthStart(e), off, <<>>)

PartInit ==
    /\ pq_pc = "args"
    /\ start_date \in Dates
    /\ end_date \in Dates
    /\ utc_offset \in Offsets
    /\ queries = <<>>

PartIdle ==
    /\ pq_pc = "off"
    /\ start_date = Date(BaseYear, 1, 1)
    /\ end_date = Date(BaseYear, 1, 1)
    /\ utc_offset = 0
    /\ queries = <<>>

GetPartitionQueries ==
    /\ pq_pc = "args"
    /\ queries' = get_partition_queries(start_date, end_date, utc_offset)
    /\ pq_pc' = "done"
    /\ UNCHANGED <<start_date, end_date, utc_offset>>

\* ------------------------------ sessions executing the emitted DO-blocks
Sessions == {"A", "B"}

\* the window whose statements the sessions execute (one month, three tables)
DBWindowStart == Date(BaseYear, 12, 15)
DBWindowEnd == Date(BaseYear, 12, 15)
Statements == get_partition_queries(DBWindowStart, DBWindowEnd, 0)

BaseTables == {[relname |-> Tables[i], parent |-> "", range_start |-> 0, range_end |-> 0] :
                  i \in 1..Len(Tables)}

RelNames == {Statements[i].name : i \in 1..Len(Statements)}

\* a faulty variant of IfNotExists: the lookup interpolates another name than CREATE TABLE does
IfNotExistsMisnamed(q) == ~ \E r \in pg_class : r.relname = "p" \o q.name

\* IF NOT EXISTS (SELECT 1 FROM pg_class c JOIN pg_namespace n ... WHERE c.relname = '{partition_name}')
IfNotExists(q) == ~ \E r \in pg_class : r.relname = q.name

\* the relation CREATE TABLE {partition_name} PARTITION OF {table} FOR VALUES FROM .. TO .. adds
CreatedRelation(q) ==
    [relname |-> q.name, parent |-> q.table,
     range_start |-> q.range_start, range_end |-> q.range_end]

DBInit ==
    /\ pg_class = BaseTables
    /\ db_pc = [p \in Sessions |-> "idle"]
    /\ db_stmt = [p \in Sessions |-> 1]
    /\ db_runs = [p \in Sessions |-> 0]
    /\ db_err = [p \in Sessions |-> "none"]
    /\ db_last = [p \in Sessions |-> "none"]
    /\ db_created = [n \in RelNames |-> 0]

\* a session sends one of the statements (any of them, again or not)
Begin(p, i) ==
    /\ db_pc[p] = "idle"
    /\ db_runs[p] < MaxRuns
    /\ db_pc' = [db_pc EXCEPT ![p] = "check"]
    /\ db_stmt' = [db_stmt EXCEPT ![p] = i]
    /\ db_runs' = [db_runs EXCEPT ![p] = @ + 1]
    /\ UNCHANGED <<pg_class, db_err, db_last, db_created>>

\* BEGIN IF NOT EXISTS (...) THEN ... END IF; END
Check(p) ==
    /\ db_pc[p] = "check"
    /\ IF IfNotExists(Statements[db_stmt[p]])
       THEN /\ db_pc' = [db_pc EXCEPT ![p] = "create"]
            /\ UNCHANGED db_last
       ELSE /\ db_pc' = [db_pc EXCEPT ![p] = "idle"]
            /\ db_last' = [db_last EXCEPT ![p] = "skipped"]
    /\ UNCHANGED <<pg_class, db_stmt, db_runs, db_err, db_created>>

\* CREATE TABLE {partition_name} PARTITION OF {table} ...: the store refuses a
\* relation name that is taken (duplicate_table) and the DO-block has no handler
Create(p) ==
    /\ db_pc[p] = "create"
    /\ LET q == Statements[db_stmt[p]] IN
       IF \E r \in pg_class : r.relname = q.name
       THEN /\ db_err' = [db_err EXCEPT ![p] = "duplicate_table"]
            /\ db_last' = [db_last EXCEPT ![p] = "error"]
            /\ UNCHANGED <<pg_class, db_created>>
       ELSE /\ pg_class' = pg_class \cup {CreatedRelation(q)}
            /\ db_created' = [db_created EXCEPT ![q.name] = @ + 1]
            /\ db_last' = [db_last EXCEPT ![p] = "created"]
            /\ UNCHANGED db_err
    /\ db_pc' = [db_pc EXCEPT ![p] = "idle"]
    /\ UNCHANGED <<db_stmt, db_runs>>

DBIdle ==
    /\ pg_class = {}
    /\ db_pc = [p \in Sessions |-> "off"]
    /\ db_stmt = [p \in Sessions |-> 1]
    /\ db_runs = [p \in Sessions |-> 0]
    /\ db_err = [p \in Sessions |-> "none"]
    /\ db_last = [p \in Sessions |-> "none"]
    /\ db_created = [n \in RelNames |-> 0]

\* -------------------------------------------- Python values and outcomes
\* A dict is a function from its keys; an outcome is a value or a raised exception
\* together with the error log entries written on the way.
NoExc == [type |-> "none", arg |-> ""]
NoVal == <<>>

Ok(v) == [ok |-> TRUE, val |-> v, exc |-> NoExc, log |-> <<>>]
Raise(e, l) == [ok |-> FALSE, val |-> NoVal, exc |-> e, log |-> l]

\* d[k] on a dict without k
KeyError(k) == [type |-> "KeyError", arg |-> k]
\* a constructor called without a required argument
TypeError(k) == [type |-> "TypeError", arg |-> k]

\* int(s) for the decimal strings the payloads carry
ParseInt(s) == CHOOSE n \in 0..9 : ToString(n) = s

\* d[k1][k2]...: the value, or the KeyError of the first absent key
RECURSIVE Lookup(_, _)
Lookup(d, path) ==
    IF path = <<>> THEN Ok(d)
    ELSE IF Head(path) \in DOMAIN d THEN Lookup(d[Head(path)], Tail(path))
    ELSE Raise(KeyError(Head(path)), <<>>)

\* the keyword arguments of a constructor call are evaluated in order: the index
\* of the first one that raises, 0 if none does
RECURSIVE FirstFailing(_, _, _)
FirstFailing(d, fields, i) ==
    IF i > Len(fields) THEN 0
    ELSE IF Lookup(d, fields[i][2]).ok THEN FirstFailing(d, fields, i + 1)
    ELSE i

\* --------------------------------------------------- UniswapV3Processor
DexId == "uniswap_v3"

\* the subscripts of BaseTransaction(...), in the order they are evaluated
TxFields ==
    << <<"id", <<"id">>>>, <<"block_number", <<"blockNumber">>>>,
       <<"timestamp", <<"timestamp">>>>, <<"gas_used", <<"gasUsed">>>>,
       <<"gas_price", <<"gasPrice">>>> >>

\* a faulty variant of BaseTransaction: the timestamp read with a default instead of a subscript
BaseTransactionDefaultTimestamp(td) ==
    LET rest == SelectSeq(TxFields, LAMBDA f : f[1] # "timestamp")
        bad == FirstFailing(td, rest, 1)
    IN  IF bad # 0 THEN Raise(Lookup(td, rest[bad][2]).exc, <<>>)
        ELSE Ok([ id |-> td["id"], dex_id |-> DexId,
                  block_number |-> ParseInt(td["blockNumber"]),
                  timestamp |-> IF "timestamp" \in DOMAIN td
                                THEN ParseInt(td["timestamp"]) ELSE 0,
                  gas_used |-> td["gasUsed"], gas_price |-> td["gasPrice"] ])

\* transaction = BaseTransaction(id=transaction_data['id'], ...)
BaseTransaction(td) ==
    LET bad == FirstFailing(td, TxFields, 1)
    IN  IF bad # 0 THEN Raise(Lookup(td, TxFields[bad][2]).exc, <<>>)
        ELSE Ok([ id |-> td["id"], dex_id |-> DexId,
                  block_number |-> ParseInt(td["blockNumber"]),
                  timestamp |-> ParseInt(td["timestamp"]),
                  gas_used |-> td["gasUsed"], gas_price |-> td["gasPrice"] ])

\* the subscripts of SwapEvent(...), MintEvent(...), BurnEvent(...), in order
SwapFields ==
    << <<"id", <<"id">>>>,
       <<"token0_symbol", <<"pool", "token0", "symbol">>>>,
       <<"token1_symbol", <<"pool", "token1", "symbol">>>>,
       <<"token0_name", <<"pool", "token0", "name">>>>,
       <<"token1_name", <<"pool", "token1", "name">>>>,
       <<"token0_id", <<"pool", "token0", "id">>>>,
       <<"token1_id", <<"pool", "token1", "id">>>>,
       <<"amount0", <<"amount0">>>>, <<"amount1", <<"amount1">>>>,
       <<"amount_usd", <<"amountUSD">>>>,
       <<"sender", <<"sender">>>>, <<"recipient", <<"recipient">>>>,
       <<"origin", <<"origin">>>>,
       <<"fee_tier", <<"pool", "feeTier">>>>,
       <<"liquidity", <<"pool", "liquidity">>>> >>

MintFields ==
    << <<"id", <<"id">>>>,
       <<"token0_symbol", <<"pool", "token0", "symbol">>>>,
       <<"token1_symbol", <<"pool", "token1", "symbol">>>>,
       <<"token0_name", <<"pool", "token0", "name">>>>,
       <<"token1_name", <<"pool", "token1", "name">>>>,
       <<"token0_id", <<"pool", "token0", "id">>>>,
       <<"token1_id", <<"pool", "token1", "id">>>>,
       <<"amount0", <<"amount0">>>>, <<"amount1", <<"amount1">>>>,
       <<"amount_usd", <<"amountUSD">>>>,
       <<"owner", <<"owner">>>>,
       <<"origin", <<"origin">>>>,
       <<"fee_tier", <<"pool", "feeTier">>>>,
       <<"liquidity", <<"pool", "liquidity">>>> >>

BurnFields ==
    << <<"id", <<"id">>>>,
       <<"token0_symbol", <<"pool", "token0", "symbol">>>>,
       <<"token1_symbol", <<"pool", "token1", "symbol">>>>,
       <<"token0_id", <<"pool", "token0", "id">>>>,
       <<"token1_id", <<"pool", "token1", "id">>>>,
       <<"token0_name", <<"pool", "token0", "name">>>>,
       <<"token1_name", <<"pool", "token1", "name">>>>,
       <<"amount0", <<"amount0">>>>, <<"amount1", <<"amount1">>>>,
       <<"amount_usd", <<"amountUSD">>>>,
       <<"owner", <<"owner">>>>,
       <<"origin", <<"origin">>>>,
       <<"fee_tier", <<"pool", "feeTier">>>>,
       <<"liquidity", <<"pool", "liquidity">>>> >>

\* an event built field by field: parent_transaction and timestamp from the
\* transaction, dex_id from the processor, the rest from the element's subscripts
ExplicitEvent(fields, el, transaction) ==
    LET bad == FirstFailing(el, fields, 1)
        names == {fields[i][1] : i \in 1..Len(fields)}
        pathOf(n) == (CHOOSE i \in 1..Len(fields) : fields[i][1] = n)
    IN  IF bad # 0 THEN Raise(Lookup(el, fields[bad][2]).exc, <<>>)
        ELSE Ok([n \in names \cup {"parent_transaction", "timestamp", "dex_id"} |->
                  IF n = "parent_transaction" THEN transaction
                  ELSE IF n = "timestamp" THEN transaction.timestamp
                  ELSE IF n = "dex_id" THEN DexId
                  ELSE Lookup(el, fields[pathOf(n)][2]).val])

SwapEvent(swap, transaction) == ExplicitEvent(SwapFields, swap, transaction)
MintEvent(mint, transaction) == ExplicitEvent(MintFields, mint, transaction)
BurnEvent(burn, transaction) == ExplicitEvent(BurnFields, burn, transaction)

\* CollectEvent(parent_transaction=transaction, **collect) and FlashEvent likewise:
\* the record takes the element's own keys; the identifier is required, the
\* timestamp is an integer and is copied from the parent when the element has none
SpreadEvent(el, transaction) ==
    IF "id" \notin DOMAIN el THEN Raise(TypeError("id"), <<>>)
    ELSE Ok([n \in DOMAIN el \cup {"parent_transaction", "timestamp"} |->
              IF n = "parent_transaction" THEN transaction
              ELSE IF n = "timestamp"
                   THEN (IF "timestamp" \in DOMAIN el THEN ParseInt(el["timestamp"])
                         ELSE transaction.timestamp)
              ELSE el[n]])

CollectEvent(collect, transaction) == SpreadEvent(collect, transaction)
FlashEvent(flash, transaction) == SpreadEvent(flash, transaction)

\* a faulty variant of ExceptHandler: the error wrapped with its context instead of re-raised
ExceptHandlerWrapping(kind, transaction, e) ==
    Raise([type |-> "MalformedEventError", arg |-> e.arg,
           transaction_id |-> transaction.id, kind |-> kind],
          << [kind |-> kind, transaction_id |-> transaction.id, error |-> e] >>)

\* except Exception as e: self.logger.error(f"Error processing {kind} events for
\* transaction {transaction.id}: {str(e)}"); raise e
ExceptHandler(kind, transaction, e) ==
    Raise(e, << [kind |-> kind, transaction_id |-> transaction.id, error |-> e] >>)

\* the constructor call of the loop body, by event kind
EventOf(kind, el, transaction) ==
    CASE kind = "swap" -> SwapEvent(el, transaction)
      [] kind = "mint" -> MintEvent(el, transaction)
      [] kind = "burn" -> BurnEvent(el, transaction)
      [] kind = "collect" -> CollectEvent(el, transaction)
      [] kind = "flash" -> FlashEvent(el, transaction)

\* try: for el in data: acc.append(Event(...))  except Exception as e: log; raise e
RECURSIVE ExtractLoop(_, _, _, _, _)
ExtractLoop(kind, data, transaction, i, acc) ==
    IF i > Len(data) THEN Ok(acc)
    ELSE LET r == EventOf(kind, data[i], transaction)
         IN  IF r.ok THEN ExtractLoop(kind, data, transaction, i + 1, Append(acc, r.val))
             ELSE ExceptHandler(kind, transaction, r.exc)

\* if not len(data) > 0: return []
Extract(kind, data, transaction) ==
    IF ~ (Len(data) > 0) THEN Ok(<<>>) ELSE ExtractLoop(kind, data, transaction, 1, <<>>)

\* a faulty variant of process_swaps: a malformed element is skipped and the rest returned
RECURSIVE SkipLoop(_, _, _, _)
SkipLoop(data, transaction, i, acc) ==
    IF i > Len(data) THEN Ok(acc)
    ELSE LET r == SwapEvent(data[i], transaction)
         IN  SkipLoop(data, transaction, i + 1, IF r.ok THEN Append(acc, r.val) ELSE acc)

process_swaps_skipping(swaps_data, transaction) == SkipLoop(swaps_data, transaction, 1, <<>>)

process_swaps(swaps_data, transaction) == Extract("swap", swaps_data, transaction)
process_mints(mints_data, transaction) == Extract("mint", mints_data, transaction)
process_burns(burns_data, transaction) == Extract("burn", burns_data, transaction)
process_collects(collects_data, transaction) == Extract("collect", collects_data, transaction)
process_flashs(flashs_data, transaction) == Extract("flash", flashs_data, transaction)

\* transaction_data.get(key, [])
GetList(td, key) == IF key \in DOMAIN td THEN td[key] ELSE <<>>

\* the dict display of process_response evaluates its five values in order; the
\* first extractor that raises ends the call
process_response(td) ==
    LET t == BaseTransaction(td) IN
    IF ~ t.ok THEN t ELSE
    LET s == process_swaps(GetList(td, "swaps"), t.val) IN
    IF ~ s.ok THEN s ELSE
    LET m == process_mints(GetList(td, "mints"), t.val) IN
    IF ~ m.ok THEN m ELSE
    LET b == process_burns(GetList(td, "burns"), t.val) IN
    IF ~ b.ok THEN b ELSE
    LET c == process_collects(GetList(td, "collects"), t.val) IN
    IF ~ c.ok THEN c ELSE
    LET f == process_flashs(GetList(td, "flashed"), t.val) IN
    IF ~ f.ok THEN f ELSE
    Ok([swaps |-> s.val, mints |-> m.val, burns |-> b.val,
        collects |-> c.val, flashs |-> f.val])

\* ------------------------------------------------------------- payloads
\* d without the key at the end of path
RECURSIVE Remove(_, _)
Remove(d, path) ==
    IF Len(path) = 1 THEN [k \in DOMAIN d \ {path[1]} |-> d[k]]
    ELSE [k \in DOMAIN d |-> IF k = path[1] THEN Remove(d[k], Tail(path)) ELSE d[k]]

GoodPool ==
    [ token0 |-> [symbol |-> "WETH", name |-> "Wrapped Ether", id |-> "0xc02a"],
      token1 |-> [symbol |-> "USDC", name |-> "USD Coin", id |-> "0xa0b8"],
      feeTier |-> "500", liquidity |-> "123456789" ]

GoodSwap ==
    [ id |-> "0xs", pool |-> GoodPool, amount0 |-> "1.5", amount1 |-> "-3000.25",
      amountUSD |-> "3000.1", sender |-> "0xaa", recipient |-> "0xbb", origin |-> "0xcc" ]

GoodMint ==
    [ id |-> "0xm", pool |-> GoodPool, amount0 |-> "2", amount1 |-> "4000",
      amountUSD |-> "8000", owner |-> "0xdd", origin |-> "0xcc" ]

GoodBurn ==
    [ id |-> "0xb", pool |-> GoodPool, amount0 |-> "1", amount1 |-> "2000",
      amountUSD |-> "4000", owner |-> "0xdd", origin |-> "0xcc" ]

GoodCollect ==
    [ id |-> "0xc", timestamp |-> "7", owner |-> "0xdd", amount0 |-> "0.1",
      amount1 |-> "0.2", amountUSD |-> "0.3" ]

GoodFlash ==
    [ id |-> "0xf", timestamp |-> "7", sender |-> "0xaa", recipient |-> "0xbb",
      amount0 |-> "10", amount1 |-> "20", amountUSD |-> "30" ]

\* the fields the data model calls optional
OptionalPaths == {<<"origin">>, <<"pool", "feeTier">>, <<"pool", "liquidity">>}

SwapElems == {GoodSwap} \cup {Remove(GoodSwap, p) : p \in OptionalPaths \cup {<<"amountUSD">>}}
MintElems == {GoodMint} \cup {Remove(GoodMint, p) : p \in {<<"origin">>, <<"amountUSD">>}}
BurnElems == {GoodBurn} \cup {Remove(GoodBurn, p) : p \in {<<"pool", "feeTier">>, <<"owner">>}}
CollectElems == {GoodCollect, [GoodCollect EXCEPT !["timestamp"] = "8"],
                 Remove(GoodCollect, <<"timestamp">>), Remove(GoodCollect, <<"id">>)}
FlashElems == {GoodFlash, [GoodFlash EXCEPT !["timestamp"] = "8"],
               Remove(GoodFlash, <<"id">>)}

\* the payload key of each event kind, the kind's name in the log, its result key
Kinds == <<"swap", "mint", "burn", "collect", "flash">>
PayloadKey == [swap |-> "swaps", mint |-> "mints", burn |-> "burns",
               collect |-> "collects", flash |-> "flashed"]
ResultKey == [swap |-> "swaps", mint |-> "mints", burn |-> "burns",
              collect |-> "collects", flash |-> "flashs"]
ElemsOf == [swap |-> SwapElems, mint |-> MintElems, burn |-> BurnElems,
            collect |-> CollectElems, flash |-> FlashElems]
GoodOf == [swap |-> GoodSwap, mint |-> GoodMint, burn |-> GoodBurn,
           collect |-> GoodCollect, flash |-> GoodFlash]

SeqsUpTo(S, n) == UNION {[1..k -> S] : k \in 0..n}

TopFull(ts) ==
    [ id |-> "0xtx", blockNumber |-> "5", timestamp |-> ts,
      gasUsed |-> "21000", gasPrice |-> "30000000000" ]

\* the payloads without sub-lists: complete, or with required top-level keys absent
TopLevels ==
    {TopFull(ts) : ts \in {"7", "8"}}
    \cup {Remove(TopFull("7"), <<k>>) : k \in {"id", "timestamp", "gasPrice"}}
    \cup {Remove(Remove(TopFull("7"), <<"id">>), <<"timestamp">>)}

\* top with the sub-lists of lists (a function from some payload keys to lists)
WithLists(top, lists) ==
    [k \in DOMAIN top \cup DOMAIN lists |-> IF k \in DOMAIN lists THEN lists[k] ELSE top[k]]

\* the sub-lists tried: one kind ranges over every list of its elements up to
\* MaxEvents (or is absent), each other kind is absent or holds one good element
ListsFocused(kind) ==
    LET others == {Kinds[i] : i \in 1..Len(Kinds)} \ {kind}
        present == SUBSET others
    IN  UNION { { [k \in {PayloadKey[j] : j \in P \cup {kind}} |->
                    IF k = PayloadKey[kind] THEN l
                    ELSE << GoodOf[CHOOSE j \in P : PayloadKey[j] = k] >>] :
                  l \in SeqsUpTo(ElemsOf[kind], MaxEvents) }
                \cup { [k \in {PayloadKey[j] : j \in P} |->
                          << GoodOf[CHOOSE j \in P : PayloadKey[j] = k] >>] }
              : P \in present }

TxPayloads ==
    UNION { {WithLists(top, lists) : top \in TopLevels, lists \in ListsFocused(Kinds[i])}
            : i \in 1..Len(Kinds) }

\* ----------------------------------------------- process_response, one call
RespInit ==
    /\ pr_pc = "args"
    /\ pr_tx \in TxPayloads
    /\ pr_out = Ok(NoVal)

RespIdle ==
    /\ pr_pc = "off"
    /\ pr_tx = TopFull("7")
    /\ pr_out = Ok(NoVal)

ProcessResponse ==
    /\ pr_pc = "args"
    /\ pr_out' = process_response(pr_tx)
    /\ pr_pc' = IF pr_out'.ok THEN "returned" ELSE "raised"
    /\ UNCHANGED pr_tx

\* ------------------------------------------------ process_bulk_responses
BulkTxs ==
    { WithLists(TopFull("7"), [swaps |-> <<GoodSwap>>, collects |-> <<GoodCollect>>]),
      WithLists(TopFull("8"), [mints |-> <<GoodMint, GoodMint>>, burns |-> <<GoodBurn>>,
                               flashed |-> <<GoodFlash>>]),
      TopFull("8"),
      WithLists(Remove(TopFull("7"), <<"timestamp">>), [swaps |-> <<GoodSwap>>]),
      WithLists(TopFull("7"), [swaps |-> <<GoodSwap, Remove(GoodSwap, <<"amountUSD">>)>>]),
      WithLists(TopFull("7"), [mints |-> <<GoodMint>>,
                               burns |-> <<Remove(GoodBurn, <<"owner">>)>>]) }

\* results = [[],[],[],[],[]]
EmptyResults == [i \in 1..5 |-> <<>>]

\* results[0].extend(events['swaps']) ... results[4].extend(events['flashs'])
Extend(res, events) ==
    [i \in 1..5 |-> res[i] \o events[ResultKey[Kinds[i]]]]

\* a faulty variant of BulkExcept: the error is swallowed and the accumulator returned
BulkExceptReturnsPartial(res, e) ==
    [pc |-> "returned", ret |-> <<res>>, exc |-> NoExc]

\* except Exception as e: self.logger.error(...); raise e
BulkExcept(res, e) ==
    [pc |-> "raised", ret |-> <<>>, exc |-> e]

BulkInit ==
    /\ bulk_pc = "loop"
    /\ bulk_batch \in SeqsUpTo(BulkTxs, MaxTx)
    /\ bulk_i = 0
    /\ results = EmptyResults
    /\ bulk_ret = <<>>
    /\ bulk_exc = NoExc
    /\ bulk_log = <<>>

BulkIdle ==
    /\ bulk_pc = "off"
    /\ bulk_batch = <<>>
    /\ bulk_i = 0
    /\ results = EmptyResults
    /\ bulk_ret = <<>>
    /\ bulk_exc = NoExc
    /\ bulk_log = <<>>

\* one iteration of: for transaction_data in response_data['data']['transactions']
BulkIter ==
    /\ bulk_pc = "loop"
    /\ bulk_i < Len(bulk_batch)
    /\ LET events == process_response(bulk_batch[bulk_i + 1]) IN
       IF events.ok
       THEN /\ results' = Extend(results, events.val)
            /\ bulk_i' = bulk_i + 1
            /\ UNCHANGED <<bulk_pc, bulk_ret, bulk_exc, bulk_log>>
       ELSE LET out == BulkExcept(results, events.exc) IN
            /\ bulk_pc' = out.pc
            /\ bulk_ret' = out.ret
            /\ bulk_exc' = out.exc
            /\ bulk_log' = events.log \o
                   << [kind |-> "bulk", transaction_id |-> "", error |-> events.exc] >>
            /\ UNCHANGED <<results, bulk_i>>
    /\ UNCHANGED bulk_batch

\* return results
BulkReturn ==
    /\ bulk_pc = "loop"
    /\ bulk_i = Len(bulk_batch)
    /\ bulk_pc' = "returned"
    /\ bulk_ret' = <<results>>
    /\ UNCHANGED <<bulk_batch, bulk_i, results, bulk_exc, bulk_log>>

\* ------------------------------------------------------- specifications
Init == RespInit /\ BulkIdle /\ PartIdle /\ DBIdle
Next == ProcessResponse /\ UNCHANGED <<bulkVars, partVars, dbVars>>
Spec == Init /\ [][Next]_vars

BulkNext ==
    \/ BulkIter /\ UNCHANGED <<respVars, partVars, dbVars>>
    \/ BulkReturn /\ UNCHANGED <<respVars, partVars, dbVars>>
InitBulk == BulkInit /\ RespIdle /\ PartIdle /\ DBIdle
SpecBulk == InitBulk /\ [][BulkNext]_vars

PartNext == GetPartitionQueries /\ UNCHANGED <<respVars, bulkVars, dbVars>>
InitPart == PartInit /\ RespIdle /\ BulkIdle /\ DBIdle
SpecPart == InitPart /\ [][PartNext]_vars

DBNext ==
    \/ \E p \in Sessions, i \in 1..Len(Statements) :
           Begin(p, i) /\ UNCHANGED <<respVars, bulkVars, partVars>>
    \/ \E p \in Sessions : Check(p) /\ UNCHANGED <<respVars, bulkVars, partVars>>
    \/ \E p \in Sessions : Create(p) /\ UNCHANGED <<respVars, bulkVars, partVars>>
InitDB == DBInit /\ RespIdle /\ BulkIdle /\ PartIdle
SpecDB == InitDB /\ [][DBNext]_vars

\* =============================================================== claims
\* ------------------------------------------------------------------- C1
\* calendar months counted from year 0, independently of the code's rollover
MonthIndex(d) == d.year * 12 + (d.month - 1)
MonthOfIndex(n) == Date(n \div 12, (n % 12) + 1, 1)

\* the ranges emitted for one base table, in emission order
TableRanges(table) == SelectSeq(queries, LAMBDA q : q.table = table)

\* instants around every month and mid-month boundary of the years tried
ProbeInstants ==
    {Timestamp(Date(y, m, d), utc_offset) + e :
        y \in (BaseYear - 1) .. (BaseYear + YearSpan), m \in 1..12, d \in Days, e \in {-1, 0}}

\* C1: for a window with start <= end, the ranges emitted for each of swaps, mints
\* and burns are the half-open month ranges [month_start, next_month_start) from
\* the month of start to the month of end: adjacent, not overlapping, and covering
\* exactly [first instant of start's month, first instant of the month after end's).
C1_PartitionsCoverWindow ==
    (pq_pc = "done" /\ DateLE(start_date, end_date)) =>
        \A t \in 1..Len(Tables) :
            LET R == TableRanges(Tables[t])
                first == MonthIndex(start_date)
                last == MonthIndex(end_date)
                lo == Timestamp(MonthOfIndex(first), utc_offset)
                hi == Timestamp(MonthOfIndex(last + 1), utc_offset)
            IN  /\ Len(R) = last - first + 1
                /\ R[1].range_start = lo
                /\ R[Len(R)].range_end = hi
                /\ \A i \in 1..Len(R) :
                      /\ R[i].range_start = Timestamp(MonthOfIndex(first + i - 1), utc_offset)
                      /\ R[i].range_end = Timestamp(MonthOfIndex(first + i), utc_offset)
                      /\ R[i].range_start < R[i].range_end
                /\ \A i \in 1..(Len(R) - 1) : R[i].range_end = R[i + 1].range_start
                /\ \A x \in ProbeInstants :
                      Cardinality({i \in 1..Len(R) :
                                      R[i].range_start <= x /\ x < R[i].range_end})
                          = IF lo <= x /\ x < hi THEN 1 ELSE 0

\* a mid-month window across the year boundary has been scheduled
C1_Witness ==
    /\ pq_pc = "done"
    /\ start_date = Date(BaseYear, 11, 15)
    /\ end_date = Date(BaseYear + 1, 2, 15)
    /\ Len(queries) = 12

\* ------------------------------------------------------------------- C2
\* C2: when two sessions execute the statement of the same partition concurrently,
\* at most one table is created and neither session observes an error.
C2_RaceCreatesOnceWithoutError ==
    /\ \A n \in RelNames : db_created[n] <= 1
    /\ \A p \in Sessions : db_err[p] = "none"

\* ------------------------------------------------------------------- C3
\* C3: a statement executed when its partition already exists is a no-op: the
\* session gets no error, no table is created and the relations (names and bounds)
\* stay as they are, whichever statement it is and however often it is re-executed.
C3_ExistingPartitionIsNoOp ==
    [][\A p \in Sessions :
          ( /\ db_pc[p] = "check"
            /\ \E r \in pg_class : r.relname = Statements[db_stmt[p]].name
            /\ db_pc'[p] # "check" )
          => ( /\ db_pc'[p] = "idle"
               /\ db_last'[p] = "skipped"
               /\ pg_class' = pg_class
               /\ db_created' = db_created
               /\ db_err' = db_err )]_vars

\* a session re-executed a statement of an existing partition and skipped it
C3_Witness ==
    \E p \in Sessions :
        /\ db_pc[p] = "idle"
        /\ db_last[p] = "skipped"
        /\ db_runs[p] = MaxRuns
        /\ \E r \in pg_class : r.relname = Statements[db_stmt[p]].name

\* ------------------------------------------------------------------- C4
\* the position in the batch of the first transaction whose normalization fails
FirstFailingTx ==
    LET bad == {i \in 1..Len(bulk_batch) : ~ process_response(bulk_batch[i]).ok}
    IN  IF bad = {} THEN 0 ELSE CHOOSE i \in bad : \A j \in bad : i <= j

\* C4: if normalization of one transaction of the batch fails, the call ends by
\* raising that transaction's error; the caller receives no collections (the events
\* accumulated from the transactions before it are not returned) and no transaction
\* after the failing one is processed.
C4_FailureAbortsBatch ==
    LET k == FirstFailingTx IN
    k # 0 =>
        /\ bulk_i < k
        /\ bulk_ret = <<>>
        /\ bulk_pc \in {"loop", "raised"}
        /\ (bulk_pc = "loop" => bulk_exc = NoExc)
        /\ (bulk_pc = "raised" =>
               /\ bulk_i = k - 1
               /\ bulk_exc = process_response(bulk_batch[k]).exc)

\* the second of three transactions failed after the first had left events in the
\* accumulator, and the third, a sound one, was never reached
C4_Witness ==
    /\ bulk_pc = "raised"
    /\ Len(bulk_batch) = 3
    /\ bulk_i = 1
    /\ results[1] # <<>>
    /\ process_response(bulk_batch[3]).ok

\* ------------------------------------------------------------------- C5
TopKeys == {"id", "blockNumber", "timestamp", "gasUsed", "gasPrice"}
TopComplete(td) == TopKeys \subseteq DOMAIN td

RequiredPaths(fields) ==
    {fields[i][2] : i \in 1..Len(fields)} \ OptionalPaths

MissingRequired(fields, el) ==
    \E path \in RequiredPaths(fields) : ~ Lookup(el, path).ok

\* C6: if some element of the swap list lacks a required field, swap extraction
\* fails as a whole, wherever the element stands in the list: no list of the
\* well-formed swaps is returned.
C6_MalformedSwapFailsExtraction ==
    ( /\ pr_pc # "args"
      /\ TopComplete(pr_tx)
      /\ "swaps" \in DOMAIN pr_tx
      /\ \E i \in 1..Len(pr_tx["swaps"]) : MissingRequired(SwapFields, pr_tx["swaps"][i]) )
    => /\ pr_pc = "raised"
       /\ ~ pr_out.ok
       /\ pr_out.val = NoVal
       /\ pr_out.log[1].kind = "swap"

\* one well-formed swap followed by one without amountUSD: the extraction failed
C6_Witness ==
    /\ pr_pc = "raised"
    /\ TopComplete(pr_tx)
    /\ "swaps" \in DOMAIN pr_tx
    /\ pr_tx["swaps"] = <<GoodSwap, Remove(GoodSwap, <<"amountUSD">>)>>
    /\ pr_out.exc = KeyError("amountUSD")

\* ------------------------------------------------------------------- C7
\* the call failed in one of the five extractors
FailedInEvents == pr_pc = "raised" /\ TopComplete(pr_tx)

\* the kinds, by position in Kinds, whose sub-list holds an element its constructor refuses
BadKinds ==
    {j \in 1..Len(Kinds) :
        \E i \in 1..Len(GetList(pr_tx, PayloadKey[Kinds[j]])) :
            ~ EventOf(Kinds[j], GetList(pr_tx, PayloadKey[Kinds[j]])[i],
                      BaseTransaction(pr_tx).val).ok}

Unset == "<unset>"

FieldsOf == [swap |-> SwapFields, mint |-> MintFields, burn |-> BurnFields]
ExplicitKinds == {"swap", "mint", "burn"}

\* what the data model requires of a payload: every top-level field, every
\* non-optional field of each swap, mint and burn, the identifier of each
\* collect and flash
WellFormed(td) ==
    /\ TopComplete(td)
    /\ \A k \in ExplicitKinds :
          \A i \in 1..Len(GetList(td, PayloadKey[k])) :
              ~ MissingRequired(FieldsOf[k], GetList(td, PayloadKey[k])[i])
    /\ \A k \in {"collect", "flash"} :
          \A i \in 1..Len(GetList(td, PayloadKey[k])) :
              "id" \in DOMAIN GetList(td, PayloadKey[k])[i]

\* the optional fields (by position in the kind's field list) element el lacks
AbsentOptional(k, el) ==
    {n \in 1..Len(FieldsOf[k]) :
        FieldsOf[k][n][2] \in OptionalPaths /\ ~ Lookup(el, FieldsOf[k][n][2]).ok}

\* C8: when an optional field (fee tier, origin, pool liquidity) is absent from a
\* swap, mint or burn element of an otherwise well-formed payload, normalization
\* succeeds and the output record holds that field unset.
C8_AbsentOptionalIsUnset ==
    ( /\ pr_pc # "args"
      /\ WellFormed(pr_tx)
      /\ \E k \in ExplicitKinds : \E i \in 1..Len(GetList(pr_tx, PayloadKey[k])) :
             AbsentOptional(k, GetList(pr_tx, PayloadKey[k])[i]) # {} )
    => /\ pr_pc = "returned"
       /\ \A k \in ExplicitKinds : \A i \in 1..Len(GetList(pr_tx, PayloadKey[k])) :
             \A n \in AbsentOptional(k, GetList(pr_tx, PayloadKey[k])[i]) :
                 pr_out.val[ResultKey[k]][i][FieldsOf[k][n][1]] = Unset

TimestampEqualsParentExplicit ==
    pr_pc = "returned" =>
        \A k \in ExplicitKinds :
            \A i \in 1..Len(pr_out.val[ResultKey[k]]) :
                LET e == pr_out.val[ResultKey[k]][i] IN
                /\ e.timestamp = e.parent_transaction.timestamp
                /\ e.timestamp = ParseInt(pr_tx["timestamp"])

\* ------------------------------------------------------------------ C10
ResultKeys == {ResultKey[Kinds[j]] : j \in 1..Len(Kinds)}

CardinalitiesMatch ==
    /\ pr_pc = "returned"
    /\ DOMAIN pr_out.val = ResultKeys
    /\ \A j \in 1..Len(Kinds) :
          Len(pr_out.val[ResultKey[Kinds[j]]]) = Len(GetList(pr_tx, PayloadKey[Kinds[j]]))

\* C10: for every well-formed payload process_response returns all five
\* collections, each with as many records as the payload has elements of that
\* kind, an absent or empty sub-list giving an empty collection.
C10_WellFormedCardinalities ==
    (pr_pc # "args" /\ WellFormed(pr_tx)) => CardinalitiesMatch

\* no swap, mint or burn of the payload lacks any field its constructor call reads
EveryFieldPresent(td) ==
    \A k \in ExplicitKinds :
        \A i \in 1..Len(GetList(td, PayloadKey[k])) :
            FirstFailing(GetList(td, PayloadKey[k])[i], FieldsOf[k], 1) = 0

\* the part of C10 the code gives: payloads whose optional fields are all present
CardinalitiesWhenEveryFieldPresent ==
    (pr_pc # "args" /\ WellFormed(pr_tx) /\ EveryFieldPresent(pr_tx)) => CardinalitiesMatch

\* ------------------------------------------------------------------ C11
\* the window is empty or inverted once normalized: the first instant of the month
\* after end's month is not after the first instant of start's month
NormalizedEndNotAfterStart == MonthIndex(end_date) + 1 <= MonthIndex(start_date)

\* C11: for every window whose normalized end is not after its normalized start,
\* get_partition_queries returns (it raises nothing) and what it returns is the
\* empty sequence.
C11_InvertedWindowIsEmpty ==
    (pq_pc # "args" /\ NormalizedEndNotAfterStart) =>
        /\ pq_pc = "done"
        /\ queries = <<>>

\* a zero-width window (end in the month before start's) has been scheduled
C11_Witness ==
    /\ pq_pc = "done"
    /\ start_date = Date(BaseYear + 1, 1, 1)
    /\ end_date = Date(BaseYear, 12, 15)
    /\ queries = <<>>

\* ------------------------------------------------------------------ C12
\* %m as text, written out
MonthText == <<"01", "02", "03", "04", "05", "06", "07", "08", "09", "10", "11", "12">>

\* {table}_p{YYYY_MM} of the calendar month with index n
ExpectedName(table, n) ==
    table \o "_p" \o ToString(n \div 12) \o "_" \o MonthText[(n % 12) + 1]

\* the window runs from November of a year to January of the next
NovemberToJanuary ==
    /\ start_date.month = 11
    /\ end_date.month = 1
    /\ end_date.year = start_date.year + 1

\* C12: every partition is named {table}_p{YYYY_MM} after the month it starts in,
\* December of year Y being followed by January of year Y+1; a window from November
\* of Y to January of Y+1 yields for each of swaps, mints and burns exactly
\* _p{Y}_11, _p{Y}_12, _p{Y+1}_01 in that order: 3 months x 3 tables statements.
C12_NamesFollowCalendar ==
    pq_pc = "done" =>
        /\ \A t \in 1..Len(Tables) :
              LET R == TableRanges(Tables[t]) IN
              \A i \in 1..Len(R) :
                  /\ R[i].name = ExpectedName(Tables[t], MonthIndex(start_date) + i - 1)
                  /\ R[i].range_start =
                         Timestamp(MonthOfIndex(MonthIndex(start_date) + i - 1), utc_offset)
        /\ \A i \in 1..Len(queries) : queries[i].table = Tables[((i - 1) % 3) + 1]
        /\ NovemberToJanuary =>
              /\ Len(queries) = 3 * 3
              /\ \A t \in 1..Len(Tables) :
                    LET R == TableRanges(Tables[t])
                        Y == start_date.year
                    IN  [i \in 1..Len(R) |-> R[i].name] =
                            << Tables[t] \o "_p" \o ToString(Y) \o "_11",
                               Tables[t] \o "_p" \o ToString(Y) \o "_12",
                               Tables[t] \o "_p" \o ToString(Y + 1) \o "_01" >>

\* a mid-November to mid-January window has been scheduled and its first, sixth
\* and last statements carry the names of the text
C12_Witness ==
    /\ pq_pc = "done"
    /\ start_date = Date(2023, 11, 15)
    /\ end_date = Date(2024, 1, 15)
    /\ Len(queries) = 9
    /\ queries[1].name = "swaps_p2023_11"
    /\ queries[6].name = "burns_p2023_12"
    /\ queries[9].name = "burns_p2024_01"
====
